---- MODULE Spec2Model ----
(***************************************************************************)
(* Model of the beezim indexer (src/indexer/indexer.go): the ParseZIM      *)
(* producer goroutine, the channel it returns, the metadata index, and the *)
(* two consumers of the channel, UnZim and TarZim.                         *)
(*                                                                         *)
(* A path is a sequence of segments: "A/d/b" is <<"A", "d", "b">>.  A      *)
(* payload is a sequence of bytes.                                         *)
(***************************************************************************)
EXTENDS Integers, Sequences, FiniteSets, TLC

VARIABLES
    Z,          \* the archive behind idx.Z, in ListTitlesPtrIterator order
    mode,       \* which consumer the caller drives: "UnZim" or "TarZim"
    ppc,        \* position of the ParseZIM goroutine
    i,          \* 1-based position of the iterator callback
    art,        \* the Article of the pending channel send, <<>> when none
    ch,         \* values parked on zimArticles, not yet received
    closed,     \* close(zimArticles) has run
    entries,    \* idx.entries: path -> [Title, MimeType]
    progress,   \* number of progressBar.Increment() calls
    exited,     \* log.Fatalf has ended the process
    wpc,        \* position of the consumer (UnZim / TarZim)
    file,       \* the consumer's loop variable, <<>> when none
    werr,       \* the consumer's return value: "running", "nil" or "error"
    eof,        \* the consumer's range loop has seen the channel closed
    tar,        \* members written to the tar file, in order
    tarClosed,  \* tw.Close() has written the trailer
    dir,        \* files under outputDir: path -> bytes
    emitted,    \* history: Articles whose channel send has completed
    recvLog,    \* history: Articles the consumer has received
    logged,     \* number of log.Printf calls of the ParseZIM goroutine
    mu,         \* idx.mu is locked
    cpc,        \* position of a caller that uses Entries()
    held,       \* the map value that caller holds: "nil" or "idx.entries"
    callerWrites, \* number of writes the caller made to the map it holds
    mainPage,   \* position of the archive's main page, NoMainPage when none
    pageErr,    \* the return value of MakeRedirectIndexPage, "none" before
    dataPc,     \* a call of Article.Data(): "idle", "running", "returned"
                \* or "overflow"
    dataDepth   \* nested activations of Article.Data() on the stack

vars == <<Z, mode, ppc, i, art, ch, closed, entries, progress, exited,
          wpc, file, werr, eof, tar, tarClosed, dir, emitted, recvLog,
          logged, mu, cpc, held, callerWrites, mainPage, pageErr, dataPc,
          dataDepth>>

prodVars == <<ppc, i, art, closed, entries, progress, exited, emitted>>
consVars == <<wpc, file, werr, eof, tar, tarClosed, dir, recvLog>>
callerVars ==
    <<mu, cpc, held, callerWrites, mainPage, pageErr, dataPc, dataDepth>>

-----------------------------------------------------------------------------
(* Bounds of the model. *)

MaxEntries == 3

\* Archive length in the specifications that add a caller to the pipeline.
MaxSmallEntries == 2

\* Activations of Article.Data() the goroutine stack has room for.
MaxStackDepth == 3

\* Writes of the caller to the map it got from Entries().
MaxCallerWrites == 1

-----------------------------------------------------------------------------
(* Program constants. *)

\* Mutant: a buffered channel, make(chan Article, 2).
ChanCapBuffered == 1 + 1

\* make(chan Article): an unbuffered channel.
ChanCap == 0

\* Mode: 0600 of the tar header.
TarMode == 384

\* mainPage == nil: the archive declares no main page.
NoMainPage == 0

\* Mutant: every namespace is taken, the unassigned ones too.
RecognizedNamespacesAll == {"-", "A", "I", "M", "X", "U"}

\* The namespaces of the switch in ParseZIM.
RecognizedNamespaces == {"-", "A", "I", "M", "X"}

-----------------------------------------------------------------------------
(* The archive.  Entry p of an archive has a fixed URL, title and payload  *)
(* (distinct URLs, as in a ZIM URL pointer list); its namespace, entry     *)
(* type and the decoder's failures are drawn from Shapes.                  *)

Namespaces == RecognizedNamespaces \cup {"U"}

UrlTable == << <<"a">>, <<"d", "b">>, <<"d">>, <<"c", "b">>, <<"e">>, <<"f">> >>
TitleTable == << "Ta", "Tb", "Tc", "Td", "Te", "Tf" >>
DataTable == << <<1>>, <<2, 2>>, <<>>, <<4>>, <<5>>, <<6>> >>

MimeOf(ns) ==
    CASE ns = "A" -> "text/html"
      [] ns = "I" -> "image/png"
      [] ns = "-" -> "text/css"
      [] ns = "M" -> "text/plain"
      [] OTHER    -> "application/octet-stream"

RedirectTargets == {1, 2, MaxEntries + 1}

Shapes ==
    {[ns |-> n, entryType |-> "ContentEntry", lookupErr |-> FALSE,
      dataErr |-> FALSE, redirectIndex |-> 0] : n \in Namespaces}
    \cup
    {[ns |-> "A", entryType |-> "ContentEntry", lookupErr |-> FALSE,
      dataErr |-> TRUE, redirectIndex |-> 0],
     [ns |-> "A", entryType |-> "DeletedEntry", lookupErr |-> FALSE,
      dataErr |-> FALSE, redirectIndex |-> 0],
     [ns |-> "I", entryType |-> "ContentEntry", lookupErr |-> TRUE,
      dataErr |-> FALSE, redirectIndex |-> 0]}
    \cup
    {[ns |-> "A", entryType |-> "RedirectEntry", lookupErr |-> FALSE,
      dataErr |-> FALSE, redirectIndex |-> t] : t \in RedirectTargets}

MkEntry(p, s) ==
    [Namespace |-> s.ns,
     url       |-> UrlTable[p],
     Title     |-> TitleTable[p],
     mimeType  |-> IF s.entryType = "ContentEntry" THEN MimeOf(s.ns) ELSE "",
     EntryType |-> s.entryType,
     lookupErr |-> s.lookupErr,
     dataErr   |-> s.dataErr,
     data      |-> DataTable[p],
     redirectIndex |-> s.redirectIndex]

Archives ==
    UNION {{[p \in 1..n |-> MkEntry(p, f[p])] : f \in [1..n -> Shapes]}
           : n \in 0..MaxEntries}

-----------------------------------------------------------------------------
(* The decoder (gozim), as ParseZIM uses it. *)

\* a.FullURL(): the namespace, a slash, the URL.
FullURL(a) == <<a.Namespace>> \o a.url

\* path.Base: the last element of a path.
Base(p) == IF p = <<>> THEN "." ELSE p[Len(p)]

\* idx.Z.ArticleAtURLIdx(n) returns an error.
ArticleAtURLIdxFails(z, n) ==
    IF n \in 1..Len(z) THEN z[n].lookupErr ELSE TRUE

\* buildRedirectPage(pagePath): the rendered index-redirect.html.
buildRedirectPage(pagePath) == <<"index-redirect.html", pagePath>>

\* A map with no keys (make(map[string]IndexEntry), an empty directory).
EmptyMap == [k \in {} |-> <<>>]

\* m[k] = v, as a Go map assignment: insert or overwrite.
MapPut(m, k, v) == [x \in DOMAIN m \cup {k} |-> IF x = k THEN v ELSE m[x]]

IsSubSeq(s, t) == Len(s) <= Len(t) /\ SubSeq(t, 1, Len(s)) = s

-----------------------------------------------------------------------------
\* The state once the goroutine of ParseZIM has started its progress bar and
\* logged "Parsing zim file" (lines 101-106) and the caller has called one
\* consumer.
RunInit ==
    /\ Z \in Archives
    /\ mode \in {"UnZim", "TarZim"}
    /\ ppc = "iter"
    /\ i = 1
    /\ art = <<>>
    /\ ch = <<>>
    /\ closed = FALSE
    /\ entries = EmptyMap
    /\ progress = 0
    /\ exited = FALSE
    /\ wpc = "open"
    /\ file = <<>>
    /\ werr = "running"
    /\ eof = FALSE
    /\ tar = <<>>
    /\ tarClosed = FALSE
    /\ dir = EmptyMap
    /\ emitted = <<>>
    /\ recvLog = <<>>
    /\ logged = 1
    /\ mu = FALSE
    /\ cpc = "idle"
    /\ held = "nil"
    /\ callerWrites = 0
    /\ pageErr = "none"
    /\ dataPc = "idle"
    /\ dataDepth = 0

\* The pipeline alone: the main page of the archive is not looked at.
Init == RunInit /\ mainPage = NoMainPage

-----------------------------------------------------------------------------
(* ParseZIM: the goroutine started at line 99.  One action per way through *)
(* the iterator callback (lines 107-159) up to its first blocking point.   *)

\* The callback is about to run for position i.
InCallback == ~exited /\ ppc = "iter" /\ i <= Len(Z)

\* Mutant: the test for deleted entries is missing.
LookupSkipsKeepsDeleted == ArticleAtURLIdxFails(Z, i)

\* Line 109: the lookup fails or the entry is deleted.
LookupSkips == ArticleAtURLIdxFails(Z, i) \/ Z[i].EntryType = "DeletedEntry"

\* Line 116: the entry reaches the recognized case of the switch.
Recognized == ~LookupSkips /\ Z[i].Namespace \in RecognizedNamespaces

\* a.RedirectIndex() returns an error (gozim: only for a non-redirect).
RedirectIndexFails(a) == a.EntryType # "RedirectEntry"

\* Lines 124-131: the redirect of entry a cannot be resolved.
RedirectFails(z, a) ==
    RedirectIndexFails(a) \/ ArticleAtURLIdxFails(z, a.redirectIndex)

\* Mutant: a failing entry ends the iteration instead of being skipped.
ProducerReturnEndsIteration ==
    /\ ~exited /\ ppc = "iter" /\ i <= Len(Z)
    /\ \/ ArticleAtURLIdxFails(Z, i)
       \/ Z[i].EntryType = "DeletedEntry"
       \/ /\ ~ArticleAtURLIdxFails(Z, i)
          /\ Z[i].Namespace \in {"-", "A", "I", "M", "X"}
          /\ IF Z[i].EntryType = "RedirectEntry"
                THEN ArticleAtURLIdxFails(Z, Z[i].redirectIndex)
                ELSE Z[i].dataErr
    /\ i' = Len(Z) + 1
    /\ UNCHANGED <<callerVars, logged>>
    /\ UNCHANGED <<Z, mode, ppc, art, ch, closed, entries, progress, exited,
                   emitted>>
    /\ UNCHANGED <<wpc, file, werr, eof, tar, tarClosed, dir, recvLog>>

\* Lines 109-111, 125-131, 138-140: return from the callback without a
\* send, an AddEntry or a progressBar.Increment.
ProducerReturn ==
    /\ InCallback
    /\ \/ LookupSkips
       \/ /\ Recognized
          /\ IF Z[i].EntryType = "RedirectEntry"
                THEN RedirectFails(Z, Z[i])
                ELSE Z[i].dataErr
    /\ i' = i + 1
    /\ UNCHANGED <<callerVars, logged>>
    /\ UNCHANGED <<Z, mode, ppc, art, ch, closed, entries, progress, exited,
                   emitted>>
    /\ UNCHANGED consVars

\* Lines 156-158: a namespace outside the switch; only the progress bar moves.
ProducerDefault ==
    /\ InCallback
    /\ ~LookupSkips
    /\ Z[i].Namespace \notin RecognizedNamespaces
    /\ i' = i + 1
    /\ progress' = progress + 1
    /\ UNCHANGED <<callerVars, logged>>
    /\ UNCHANGED <<Z, mode, ppc, art, ch, closed, entries, exited, emitted>>
    /\ UNCHANGED consVars

\* Lines 132, 137: the payload of the Article built for entry a.
PayloadOf(z, a) ==
    IF a.EntryType = "RedirectEntry"
        THEN buildRedirectPage(Base(FullURL(z[a.redirectIndex])))
        ELSE a.data

\* Mutant: a redirect is emitted at the path of its target.
ArticleOfAtTarget(z, a) ==
    [path |-> IF a.EntryType = "RedirectEntry"
                 THEN <<z[a.redirectIndex].Namespace>> \o z[a.redirectIndex].url
                 ELSE <<a.Namespace>> \o a.url,
     data |-> IF a.EntryType = "RedirectEntry"
                 THEN <<"index-redirect.html",
                        z[a.redirectIndex].url[Len(z[a.redirectIndex].url)]>>
                 ELSE a.data]

\* Lines 143-146: the Article literal.
ArticleOf(z, a) == [path |-> FullURL(a), data |-> PayloadOf(z, a)]

\* Mutant: the index entry is inserted before the Article is sent.
ProducerSendAfterInsert ==
    /\ ~exited /\ ppc = "iter" /\ i <= Len(Z)
    /\ ~ArticleAtURLIdxFails(Z, i)
    /\ Z[i].EntryType # "DeletedEntry"
    /\ Z[i].Namespace \in {"-", "A", "I", "M", "X"}
    /\ IF Z[i].EntryType = "RedirectEntry"
          THEN ~ArticleAtURLIdxFails(Z, Z[i].redirectIndex)
          ELSE ~Z[i].dataErr
    /\ entries' = MapPut(entries, <<Z[i].Namespace>> \o Z[i].url,
                         [Title |-> Z[i].Title, MimeType |-> Z[i].mimeType])
    /\ art' = [path |-> <<Z[i].Namespace>> \o Z[i].url,
               data |-> IF Z[i].EntryType = "RedirectEntry"
                           THEN <<"index-redirect.html",
                                  Base(Z[Z[i].redirectIndex].url)>>
                           ELSE Z[i].data]
    /\ ch' = Append(ch, art')
    /\ ppc' = "send"
    /\ UNCHANGED <<callerVars, logged>>
    /\ UNCHANGED <<Z, mode, i, closed, progress, exited, emitted>>
    /\ UNCHANGED <<wpc, file, werr, eof, tar, tarClosed, dir, recvLog>>

\* Lines 123-146: the payload is built and the send statement is reached;
\* the value waits on the channel.
ProducerSend ==
    /\ InCallback
    /\ Recognized
    /\ IF Z[i].EntryType = "RedirectEntry"
          THEN ~RedirectFails(Z, Z[i])
          ELSE ~Z[i].dataErr
    /\ art' = ArticleOf(Z, Z[i])
    /\ ch' = Append(ch, art')
    /\ ppc' = "send"
    /\ UNCHANGED <<callerVars, logged>>
    /\ UNCHANGED <<Z, mode, i, closed, entries, progress, exited, emitted>>
    /\ UNCHANGED consVars

\* Mutant: the render failure is found after the index entry was inserted.
ProducerFatalAfterInsert ==
    /\ ~exited /\ ppc = "iter" /\ i <= Len(Z)
    /\ ~ArticleAtURLIdxFails(Z, i)
    /\ Z[i].EntryType = "RedirectEntry"
    /\ Z[i].Namespace \in {"-", "A", "I", "M", "X"}
    /\ ~ArticleAtURLIdxFails(Z, Z[i].redirectIndex)
    /\ entries' = MapPut(entries, <<Z[i].Namespace>> \o Z[i].url,
                         [Title |-> Z[i].Title, MimeType |-> Z[i].mimeType])
    /\ ppc' = "fatal"
    /\ exited' = TRUE
    /\ UNCHANGED <<callerVars, logged>>
    /\ UNCHANGED <<Z, mode, i, art, ch, closed, progress, emitted>>
    /\ UNCHANGED <<wpc, file, werr, eof, tar, tarClosed, dir, recvLog>>

\* Lines 132-135: buildRedirectPage returns an error; log.Fatalf ends the
\* process, the consumer included.
ProducerFatal ==
    /\ InCallback
    /\ Recognized
    /\ Z[i].EntryType = "RedirectEntry"
    /\ ~RedirectFails(Z, Z[i])
    /\ ppc' = "fatal"
    /\ exited' = TRUE
    /\ UNCHANGED <<callerVars, logged>>
    /\ UNCHANGED <<Z, mode, i, art, ch, closed, entries, progress, emitted>>
    /\ UNCHANGED consVars

\* Mutant: the send returns although no receiver has taken the value.
ProducerSendDoneNoWait ==
    /\ ~exited
    /\ ppc = "send"
    /\ emitted' = Append(emitted, art)
    /\ art' = <<>>
    /\ ppc' = "add"
    /\ UNCHANGED <<callerVars, logged>>
    /\ UNCHANGED <<Z, mode, i, ch, closed, entries, progress, exited>>
    /\ UNCHANGED <<wpc, file, werr, eof, tar, tarClosed, dir, recvLog>>

\* Line 143 completes: on a channel of capacity ChanCap the send returns
\* once at most ChanCap values are still waiting.
ProducerSendDone ==
    /\ ~exited
    /\ ppc = "send"
    /\ Len(ch) <= ChanCap
    /\ emitted' = Append(emitted, art)
    /\ art' = <<>>
    /\ ppc' = "add"
    /\ UNCHANGED <<callerVars, logged>>
    /\ UNCHANGED <<Z, mode, i, ch, closed, entries, progress, exited>>
    /\ UNCHANGED consVars

\* Mutant: the entry is stored under its title instead of its path.
AddEntryByTitle(m, entryPath, metadata) == MapPut(m, <<metadata.Title>>, metadata)

\* idx.AddEntry (lines 83-91).
AddEntry(m, entryPath, metadata) == MapPut(m, entryPath, metadata)

\* Lines 149-152 and 158: AddEntry, then progressBar.Increment; the callback
\* returns.
ProducerAddEntry ==
    /\ ~exited
    /\ ppc = "add"
    /\ entries' = AddEntry(entries, FullURL(Z[i]),
                           [Title |-> Z[i].Title, MimeType |-> Z[i].mimeType])
    /\ progress' = progress + 1
    /\ i' = i + 1
    /\ ppc' = "iter"
    /\ UNCHANGED <<callerVars, logged>>
    /\ UNCHANGED <<Z, mode, art, ch, closed, exited, emitted>>
    /\ UNCHANGED consVars

\* Mutant: the goroutine returns without closing the channel.
ProducerCloseForgotten ==
    /\ ~exited
    /\ ppc = "iter"
    /\ i > Len(Z)
    /\ ppc' = "done"
    /\ logged' = logged + 1
    /\ UNCHANGED callerVars
    /\ UNCHANGED <<Z, mode, i, art, ch, closed, entries, progress,
                   exited, emitted>>
    /\ UNCHANGED <<wpc, file, werr, eof, tar, tarClosed, dir, recvLog>>

\* Lines 159-163 and the deferred close of line 100: the iteration is over.
ProducerClose ==
    /\ ~exited
    /\ ppc = "iter"
    /\ i > Len(Z)
    /\ closed' = TRUE
    /\ ppc' = "done"
    /\ logged' = logged + 1
    /\ UNCHANGED callerVars
    /\ UNCHANGED <<Z, mode, i, art, ch, entries, progress, exited,
                   emitted>>
    /\ UNCHANGED consVars

Producer ==
    \/ ProducerReturn
    \/ ProducerDefault
    \/ ProducerSend
    \/ ProducerFatal
    \/ ProducerSendDone
    \/ ProducerAddEntry
    \/ ProducerClose

-----------------------------------------------------------------------------
(* The consumers.  Both range over the channel (lines 174, 207).           *)

\* outputDir of UnZim.
outputDir == <<"out">>

\* Mutant: the file is created under its base name only.
JoinBase(d, p) == d \o <<Base(p)>>

\* filepath.Join(outputDir, file.path)
Join(d, p) == d \o p

\* A proper prefix of q.
IsProperPrefix(p, q) == p # q /\ IsSubSeq(p, q)

\* Lines 178-184 cannot succeed: an element of the directory path is a
\* regular file (MkdirAll is skipped or fails, os.Create fails), or the path
\* is a directory.
CreateMustFail(d, filePath) ==
    \E q \in DOMAIN d : IsProperPrefix(q, filePath) \/ IsProperPrefix(filePath, q)

\* Mutant: the error is recorded but the loop goes on.
ReturnErrorKeepsReceiving ==
    /\ werr' = "error"
    /\ wpc' = "recv"

\* The consumer returns err.
ReturnError ==
    /\ werr' = "error"
    /\ wpc' = "done"

\* Lines 168-172: UnZim makes sure outputDir exists.
UnZimMkdirAll ==
    /\ ~exited /\ mode = "UnZim" /\ wpc = "open"
    /\ \/ /\ wpc' = "recv"
          /\ UNCHANGED werr
       \/ ReturnError
    /\ UNCHANGED <<file, eof, tar, tarClosed, dir, recvLog>>
    /\ UNCHANGED <<callerVars, logged>>
    /\ UNCHANGED <<Z, mode, ch>>
    /\ UNCHANGED prodVars

\* Lines 200-206: TarZim creates the tar file.
TarZimCreate ==
    /\ ~exited /\ mode = "TarZim" /\ wpc = "open"
    /\ \/ /\ wpc' = "recv"
          /\ UNCHANGED werr
       \/ ReturnError
    /\ UNCHANGED <<file, eof, tar, tarClosed, dir, recvLog>>
    /\ UNCHANGED <<callerVars, logged>>
    /\ UNCHANGED <<Z, mode, ch>>
    /\ UNCHANGED prodVars

\* Lines 174, 207: the range loop takes the value waiting on the channel.
Receive ==
    /\ ~exited /\ wpc = "recv"
    /\ ch # <<>>
    /\ file' = Head(ch)
    /\ ch' = Tail(ch)
    /\ recvLog' = Append(recvLog, Head(ch))
    /\ wpc' = IF mode = "UnZim" THEN "create" ELSE "header"
    /\ UNCHANGED <<werr, eof, tar, tarClosed, dir>>
    /\ UNCHANGED <<callerVars, logged>>
    /\ UNCHANGED <<Z, mode>>
    /\ UNCHANGED prodVars

\* Lines 174, 207: the range loop ends, the channel is closed and empty.
\* UnZim returns nil (line 196); TarZim goes on to tw.Close (line 223).
ReceiveClosed ==
    /\ ~exited /\ wpc = "recv"
    /\ ch = <<>> /\ closed
    /\ eof' = TRUE
    /\ file' = <<>>
    /\ IF mode = "UnZim"
          THEN wpc' = "done" /\ werr' = "nil"
          ELSE wpc' = "close" /\ UNCHANGED werr
    /\ UNCHANGED <<tar, tarClosed, dir, recvLog>>
    /\ UNCHANGED <<callerVars, logged>>
    /\ UNCHANGED <<Z, mode, ch>>
    /\ UNCHANGED prodVars

\* Lines 175-187: the parent directories and os.Create, which truncates.
UnZimCreate ==
    /\ ~exited /\ mode = "UnZim" /\ wpc = "create"
    /\ \/ /\ ~CreateMustFail(dir, Join(outputDir, file.path))
          /\ dir' = MapPut(dir, Join(outputDir, file.path), <<>>)
          /\ wpc' = "write"
          /\ UNCHANGED werr
       \/ /\ ReturnError
          /\ UNCHANGED dir
    /\ UNCHANGED <<file, eof, tar, tarClosed, recvLog>>
    /\ UNCHANGED <<callerVars, logged>>
    /\ UNCHANGED <<Z, mode, ch>>
    /\ UNCHANGED prodVars

\* Lines 189-193: f.Write and f.Close.  A failed write leaves a proper
\* prefix of the payload in the file.
UnZimWrite ==
    /\ ~exited /\ mode = "UnZim" /\ wpc = "write"
    /\ \/ /\ dir' = MapPut(dir, Join(outputDir, file.path), file.data)
          /\ wpc' = "recv"
          /\ UNCHANGED werr
       \/ /\ \E n \in 0..(Len(file.data) - 1) :
                dir' = MapPut(dir, Join(outputDir, file.path),
                              SubSeq(file.data, 1, n))
          /\ ReturnError
    /\ UNCHANGED <<file, eof, tar, tarClosed, recvLog>>
    /\ UNCHANGED <<callerVars, logged>>
    /\ UNCHANGED <<Z, mode, ch>>
    /\ UNCHANGED prodVars

\* Lines 208-212: the tar header of an Article.
Header(f) == [Name |-> f.path, Mode |-> TarMode, Size |-> Len(f.data)]

\* Mutant: a new member goes to the front of the archive.
TarZimWriteHeaderInFront ==
    /\ ~exited /\ mode = "TarZim" /\ wpc = "header"
    /\ \/ /\ tar' = <<[hdr |-> [Name |-> file.path, Mode |-> TarMode,
                                Size |-> Len(file.data)],
                        data |-> <<>>]>> \o tar
          /\ wpc' = "data"
          /\ UNCHANGED werr
       \/ /\ werr' = "error"
          /\ wpc' = "done"
          /\ UNCHANGED tar
    /\ UNCHANGED <<file, eof, tarClosed, dir, recvLog>>
    /\ UNCHANGED <<callerVars, logged>>
    /\ UNCHANGED <<Z, mode, ch>>
    /\ UNCHANGED <<ppc, i, art, closed, entries, progress, exited, emitted>>

\* Lines 208-216: tw.WriteHeader starts a member.
TarZimWriteHeader ==
    /\ ~exited /\ mode = "TarZim" /\ wpc = "header"
    /\ \/ /\ tar' = Append(tar, [hdr |-> Header(file), data |-> <<>>])
          /\ wpc' = "data"
          /\ UNCHANGED werr
       \/ /\ ReturnError
          /\ UNCHANGED tar
    /\ UNCHANGED <<file, eof, tarClosed, dir, recvLog>>
    /\ UNCHANGED <<callerVars, logged>>
    /\ UNCHANGED <<Z, mode, ch>>
    /\ UNCHANGED prodVars

\* Mutant: a short write is taken for a complete one.
TarZimWriteMaybeShort ==
    /\ ~exited /\ mode = "TarZim" /\ wpc = "data"
    /\ \/ /\ \E n \in 0..Len(file.data) :
                tar' = [tar EXCEPT ![Len(tar)].data = SubSeq(file.data, 1, n)]
          /\ wpc' = "recv"
          /\ UNCHANGED werr
       \/ /\ \E n \in 0..(Len(file.data) - 1) :
                tar' = [tar EXCEPT ![Len(tar)].data = SubSeq(file.data, 1, n)]
          /\ werr' = "error"
          /\ wpc' = "done"
    /\ UNCHANGED <<file, eof, tarClosed, dir, recvLog>>
    /\ UNCHANGED <<callerVars, logged>>
    /\ UNCHANGED <<Z, mode, ch>>
    /\ UNCHANGED <<ppc, i, art, closed, entries, progress, exited, emitted>>

\* Lines 218-220: tw.Write fills the member.  A failed write leaves a proper
\* prefix of the payload.
TarZimWrite ==
    /\ ~exited /\ mode = "TarZim" /\ wpc = "data"
    /\ \/ /\ tar' = [tar EXCEPT ![Len(tar)].data = file.data]
          /\ wpc' = "recv"
          /\ UNCHANGED werr
       \/ /\ \E n \in 0..(Len(file.data) - 1) :
                tar' = [tar EXCEPT ![Len(tar)].data = SubSeq(file.data, 1, n)]
          /\ ReturnError
    /\ UNCHANGED <<file, eof, tarClosed, dir, recvLog>>
    /\ UNCHANGED <<callerVars, logged>>
    /\ UNCHANGED <<Z, mode, ch>>
    /\ UNCHANGED prodVars

\* Lines 223-226: tw.Close writes the trailer.
TarZimClose ==
    /\ ~exited /\ mode = "TarZim" /\ wpc = "close"
    /\ \/ /\ tarClosed' = TRUE
          /\ werr' = "nil"
          /\ wpc' = "done"
       \/ /\ ReturnError
          /\ UNCHANGED tarClosed
    /\ UNCHANGED <<file, eof, tar, dir, recvLog>>
    /\ UNCHANGED <<callerVars, logged>>
    /\ UNCHANGED <<Z, mode, ch>>
    /\ UNCHANGED prodVars

Consumer ==
    \/ UnZimMkdirAll
    \/ TarZimCreate
    \/ Receive
    \/ ReceiveClosed
    \/ UnZimCreate
    \/ UnZimWrite
    \/ TarZimWriteHeader
    \/ TarZimWrite
    \/ TarZimClose

Next == Producer \/ Consumer

Spec == Init /\ [][Next]_vars

\* The scheduler runs every goroutine that can take a step.
FairSpec == Spec /\ WF_vars(Producer) /\ WF_vars(Consumer)

-----------------------------------------------------------------------------
(* A caller that reads the index while the run goes on.  idx.AddEntry is   *)
(* taken apart into its lock, its map assignment and its unlock.           *)

\* Line 84: idx.mu.Lock().
ProducerLock ==
    /\ ~exited
    /\ ppc = "add"
    /\ ~mu
    /\ mu' = TRUE
    /\ ppc' = "locked"
    /\ UNCHANGED <<cpc, held, callerWrites, mainPage, pageErr, dataPc,
                   dataDepth, logged>>
    /\ UNCHANGED <<Z, mode, i, art, ch, closed, entries, progress, exited,
                   emitted>>
    /\ UNCHANGED consVars

\* Lines 87-90: the map assignment, under the lock.
ProducerStore ==
    /\ ~exited
    /\ ppc = "locked"
    /\ entries' = AddEntry(entries, FullURL(Z[i]),
                           [Title |-> Z[i].Title, MimeType |-> Z[i].mimeType])
    /\ ppc' = "stored"
    /\ UNCHANGED <<callerVars, logged>>
    /\ UNCHANGED <<Z, mode, i, art, ch, closed, progress, exited, emitted>>
    /\ UNCHANGED consVars

\* Line 85 (the deferred Unlock) and line 158: the callback returns.
ProducerUnlock ==
    /\ ~exited
    /\ ppc = "stored"
    /\ mu' = FALSE
    /\ progress' = progress + 1
    /\ i' = i + 1
    /\ ppc' = "iter"
    /\ UNCHANGED <<cpc, held, callerWrites, mainPage, pageErr, dataPc,
                   dataDepth, logged>>
    /\ UNCHANGED <<Z, mode, art, ch, closed, entries, exited, emitted>>
    /\ UNCHANGED consVars

\* Lines 93-95: Entries() returns idx.entries itself, without the lock.
Entries == "idx.entries"

\* The map a held value refers to.
MapOf(h) == IF h = "idx.entries" THEN entries ELSE EmptyMap

\* delete(m, k)
MapDelete(m, k) == [x \in DOMAIN m \ {k} |-> m[x]]

\* The caller calls idx.Entries().
CallerEntries ==
    /\ ~exited
    /\ cpc = "idle"
    /\ held' = Entries
    /\ cpc' = "held"
    /\ UNCHANGED <<mu, callerWrites, mainPage, pageErr, dataPc, dataDepth,
                   logged>>
    /\ UNCHANGED <<Z, mode, ch>>
    /\ UNCHANGED prodVars
    /\ UNCHANGED consVars

\* The caller starts to range over the map it holds (as the template of
\* MakeIndexSearchPage does with idx.entries, lines 283-289); no lock.
CallerRangeBegin ==
    /\ ~exited
    /\ cpc = "held"
    /\ cpc' = "reading"
    /\ UNCHANGED <<mu, held, callerWrites, mainPage, pageErr, dataPc,
                   dataDepth, logged>>
    /\ UNCHANGED <<Z, mode, ch>>
    /\ UNCHANGED prodVars
    /\ UNCHANGED consVars

\* The range is over.
CallerRangeEnd ==
    /\ ~exited
    /\ cpc = "reading"
    /\ cpc' = "held"
    /\ UNCHANGED <<mu, held, callerWrites, mainPage, pageErr, dataPc,
                   dataDepth, logged>>
    /\ UNCHANGED <<Z, mode, ch>>
    /\ UNCHANGED prodVars
    /\ UNCHANGED consVars

\* The caller deletes a key of the map it holds; the map is idx.entries.
CallerWrite ==
    /\ ~exited
    /\ cpc = "held"
    /\ callerWrites < MaxCallerWrites
    /\ \E k \in DOMAIN MapOf(held) :
          entries' = IF held = "idx.entries"
                        THEN MapDelete(entries, k) ELSE entries
    /\ callerWrites' = callerWrites + 1
    /\ UNCHANGED <<mu, cpc, held, mainPage, pageErr, dataPc, dataDepth,
                   logged>>
    /\ UNCHANGED <<Z, mode, ch>>
    /\ UNCHANGED <<ppc, i, art, closed, progress, exited, emitted>>
    /\ UNCHANGED consVars

CallerInit == Init /\ Len(Z) <= MaxSmallEntries

CallerNext ==
    \/ ProducerReturn
    \/ ProducerDefault
    \/ ProducerSend
    \/ ProducerFatal
    \/ ProducerSendDone
    \/ ProducerLock
    \/ ProducerStore
    \/ ProducerUnlock
    \/ ProducerClose
    \/ Consumer
    \/ CallerEntries
    \/ CallerRangeBegin
    \/ CallerRangeEnd
    \/ CallerWrite

CallerSpec == CallerInit /\ [][CallerNext]_vars

-----------------------------------------------------------------------------
(* MakeRedirectIndexPage, called on the tar file once TarZim has returned. *)

\* tarball.AppendTarData(tarFile, tarball.NewBufferFile(name, buf)): one more
\* member at the end of the archive.
AppendTarData(t, name, data) ==
    Append(t, [hdr |-> [Name |-> <<name>>, Mode |-> TarMode,
                        Size |-> Len(data)],
               data |-> data])

\* Mutant: the test for a nil main page is missing, nil is returned.
MakeRedirectIndexPageNoNilTest ==
    /\ ~exited /\ mode = "TarZim" /\ werr = "nil" /\ pageErr = "none"
    /\ \/ /\ mainPage = NoMainPage
          /\ pageErr' = "nil"
          /\ UNCHANGED tar
       \/ /\ mainPage # NoMainPage
          /\ ArticleAtURLIdxFails(Z, mainPage)
          /\ pageErr' = "error"
          /\ UNCHANGED tar
       \/ /\ mainPage # NoMainPage
          /\ ~ArticleAtURLIdxFails(Z, mainPage)
          /\ \/ /\ pageErr' = "nil"
                /\ tar' = AppendTarData(tar, "index.html",
                              buildRedirectPage(FullURL(Z[mainPage])))
             \/ /\ pageErr' = "error"
                /\ UNCHANGED tar
    /\ UNCHANGED <<mu, cpc, held, callerWrites, mainPage, dataPc, dataDepth,
                   logged>>
    /\ UNCHANGED <<Z, mode, ch>>
    /\ UNCHANGED prodVars
    /\ UNCHANGED <<wpc, file, werr, eof, tarClosed, dir, recvLog>>

\* Lines 243-265.  idx.Z.MainPage() returns nil for an archive without a
\* main page and the error of the lookup otherwise; rendering and appending
\* can fail.
MakeRedirectIndexPage ==
    /\ ~exited /\ mode = "TarZim" /\ werr = "nil" /\ pageErr = "none"
    /\ \/ /\ mainPage = NoMainPage
          /\ pageErr' = "no index found in the ZIM"
          /\ UNCHANGED tar
       \/ /\ mainPage # NoMainPage
          /\ ArticleAtURLIdxFails(Z, mainPage)
          /\ pageErr' = "error"
          /\ UNCHANGED tar
       \/ /\ mainPage # NoMainPage
          /\ ~ArticleAtURLIdxFails(Z, mainPage)
          /\ \/ /\ pageErr' = "nil"
                /\ tar' = AppendTarData(tar, "index.html",
                              buildRedirectPage(FullURL(Z[mainPage])))
             \/ /\ pageErr' = "error"
                /\ UNCHANGED tar
    /\ UNCHANGED <<mu, cpc, held, callerWrites, mainPage, dataPc, dataDepth,
                   logged>>
    /\ UNCHANGED <<Z, mode, ch>>
    /\ UNCHANGED prodVars
    /\ UNCHANGED <<wpc, file, werr, eof, tarClosed, dir, recvLog>>

PagesInit ==
    /\ RunInit
    /\ Len(Z) <= MaxSmallEntries
    /\ mainPage \in {NoMainPage} \cup (1..Len(Z))

PagesNext == Next \/ MakeRedirectIndexPage

PagesSpec == PagesInit /\ [][PagesNext]_vars

-----------------------------------------------------------------------------
(* Article.Data(), called on the Article the consumer holds.               *)

\* Lines 50-52: an activation of Data() calls Data().
DataCall ==
    /\ ~exited
    /\ file # <<>>
    /\ dataPc \in {"idle", "running"}
    /\ dataDepth < MaxStackDepth
    /\ dataPc' = "running"
    /\ dataDepth' = dataDepth + 1
    /\ UNCHANGED <<mu, cpc, held, callerWrites, mainPage, pageErr, logged>>
    /\ UNCHANGED <<Z, mode, ch>>
    /\ UNCHANGED prodVars
    /\ UNCHANGED consVars

\* No room for one more activation: the runtime ends the process with
\* "stack overflow".
DataOverflow ==
    /\ ~exited
    /\ dataPc = "running"
    /\ dataDepth = MaxStackDepth
    /\ dataPc' = "overflow"
    /\ exited' = TRUE
    /\ UNCHANGED <<mu, cpc, held, callerWrites, mainPage, pageErr, dataDepth,
                   logged>>
    /\ UNCHANGED <<Z, mode, ch>>
    /\ UNCHANGED <<ppc, i, art, closed, entries, progress, emitted>>
    /\ UNCHANGED consVars

DataNext == Next \/ DataCall \/ DataOverflow

DataSpec == CallerInit /\ [][DataNext]_vars

-----------------------------------------------------------------------------
(* Vocabulary of the properties, stated on the archive alone.              *)

Positions == 1..Len(Z)

PathAt(q) == <<Z[q].Namespace>> \o Z[q].url

InRecognizedNamespace(q) == Z[q].Namespace \in {"-", "A", "I", "M", "X"}

IsDeleted(q) == Z[q].EntryType = "DeletedEntry"

IsRedirect(q) == Z[q].EntryType = "RedirectEntry"

\* The redirect of entry q resolves to an entry of the archive.
TargetResolves(q) ==
    /\ Z[q].redirectIndex \in Positions
    /\ ~Z[Z[q].redirectIndex].lookupErr

\* A recoverable per-entry failure: the payload fetch of a normal entry or
\* the resolution of a redirect fails.
FetchOrResolveFails(q) ==
    /\ InRecognizedNamespace(q) /\ ~IsDeleted(q) /\ ~Z[q].lookupErr
    /\ IF IsRedirect(q) THEN ~TargetResolves(q) ELSE Z[q].dataErr

\* The entries a run that reaches the end of the archive emits.
Survives(q) ==
    /\ InRecognizedNamespace(q) /\ ~IsDeleted(q) /\ ~Z[q].lookupErr
    /\ ~FetchOrResolveFails(q)

\* The producer has left the callback of entry q.
Visited(q) == q \in Positions /\ q < i

PathsOf(log) == {log[k].path : k \in 1..Len(log)}

CountR == Cardinality({q \in Positions : InRecognizedNamespace(q)})
CountD == Cardinality({q \in Positions : InRecognizedNamespace(q) /\ IsDeleted(q)})
CountF == Cardinality({q \in Positions :
                          /\ InRecognizedNamespace(q) /\ ~IsDeleted(q)
                          /\ (Z[q].lookupErr \/ FetchOrResolveFails(q))})

-----------------------------------------------------------------------------
\* C1 (as stated): a run drained to end-of-stream emits exactly R-D entries,
\* whatever the outcome of payload fetches and redirect resolutions.
C1_EmitsRMinusD == eof => Len(emitted) = CountR - CountD

\* C1 (amended): a run drained to end-of-stream emits exactly R-D-F entries,
\* F being the recognized, non-deleted entries whose lookup, payload fetch or
\* redirect resolution fails.
C1_EmitsRMinusDMinusF == eof => Len(emitted) = CountR - CountD - CountF

C1_Witness ==
    /\ eof
    /\ CountD > 0 /\ CountF > 0
    /\ Len(emitted) > 0

\* C2: once the consumer has seen the stream closed, the keys of the index
\* are exactly the emitted paths and every key holds the Title and MimeType
\* of the archive entry at that path.
C2_IndexMatchesEmitted ==
    eof =>
        /\ DOMAIN entries = PathsOf(emitted)
        /\ \A p \in DOMAIN entries :
              \E q \in Positions :
                  /\ PathAt(q) = p
                  /\ entries[p].Title = Z[q].Title
                  /\ entries[p].MimeType = Z[q].mimeType

C2_Witness ==
    /\ eof
    /\ Cardinality(DOMAIN entries) >= 2
    /\ \E q \in Positions : ~Survives(q)

\* C3 (as stated): whenever the consumer has received an Entry with path p,
\* the index already contains key p.
C3_IndexedBeforeReceived == PathsOf(recvLog) \subseteq DOMAIN entries

\* C3 (amended): the producer inserts after it emits: a step that adds key p
\* to the index is taken when the send of the Entry with path p has
\* completed and the consumer has received it.
C3_InsertedAfterEmitted ==
    [][\A p \in (DOMAIN entries') \ (DOMAIN entries) :
          p \in PathsOf(emitted) /\ p \in PathsOf(recvLog)]_vars

C3_Witness ==
    /\ Cardinality(DOMAIN entries) >= 2
    /\ ppc = "add"

\* C4: after a consumer has drained the stream and returned nil, the output
\* holds exactly one entry per emitted path, and under the path of every
\* emitted non-redirect entry the payload the decoder returned for it.
C4_OutputFaithful ==
    werr = "nil" =>
        /\ mode = "TarZim" =>
              /\ {tar[k].hdr.Name : k \in 1..Len(tar)} = PathsOf(emitted)
              /\ \A p \in PathsOf(emitted) :
                    Cardinality({k \in 1..Len(tar) : tar[k].hdr.Name = p}) = 1
              /\ \A k \in 1..Len(tar), q \in Positions :
                    (PathAt(q) = tar[k].hdr.Name /\ ~IsRedirect(q))
                        => tar[k].data = Z[q].data
        /\ mode = "UnZim" =>
              /\ DOMAIN dir = {<<"out">> \o p : p \in PathsOf(emitted)}
              /\ \A q \in Positions :
                    (PathAt(q) \in PathsOf(emitted) /\ ~IsRedirect(q))
                        => dir[<<"out">> \o PathAt(q)] = Z[q].data

C4_WitnessTar ==
    /\ werr = "nil" /\ mode = "TarZim"
    /\ Len(tar) >= 2
    /\ \E k \in 1..Len(tar) : Len(tar[k].data) = 2

C4_Witness ==
    /\ werr = "nil" /\ mode = "UnZim"
    /\ Cardinality(DOMAIN dir) >= 2
    /\ \E f \in DOMAIN dir : Len(f) > 3 /\ Len(dir[f]) = 2

\* C5: for every visited redirect entry in a recognized namespace whose
\* target resolves, exactly one Entry has been emitted at the redirecting
\* entry's own full URL, and its payload is the redirect stub naming the
\* last path segment of the target's full URL.
C5_RedirectStub ==
    \A q \in Positions :
        (/\ Visited(q) /\ InRecognizedNamespace(q) /\ IsRedirect(q)
         /\ ~Z[q].lookupErr /\ TargetResolves(q))
        => LET t == Z[q].redirectIndex
               hits == {k \in 1..Len(emitted) : emitted[k].path = PathAt(q)}
           IN  /\ Cardinality(hits) = 1
               /\ \A k \in hits :
                     emitted[k].data =
                         <<"index-redirect.html", Z[t].url[Len(Z[t].url)]>>

C5_Witness ==
    \E q \in Positions :
        /\ Visited(q) /\ IsRedirect(q) /\ TargetResolves(q)
        /\ Z[q].redirectIndex # q
        /\ Len(Z[Z[q].redirectIndex].url) = 2
        /\ PathAt(q) \in PathsOf(emitted)

\* The position in the archive of the entry with path p.
PositionOf(p) == CHOOSE q \in Positions : PathAt(q) = p

\* C6: TarZim writes one member per Entry received, in arrival order, and
\* that order is the decoder's iteration order restricted to the entries not
\* skipped: a precedes b in the archive iff a is visited before b.
C6_TarOrder ==
    mode = "TarZim" =>
        /\ Len(tar) \in {Len(recvLog) - 1, Len(recvLog)}
        /\ (wpc # "header" /\ werr # "error") => Len(tar) = Len(recvLog)
        /\ \A k \in 1..Len(tar) :
              /\ tar[k].hdr.Name = recvLog[k].path
              /\ tar[k].hdr.Name \in {PathAt(q) : q \in Positions}
              /\ Survives(PositionOf(tar[k].hdr.Name))
        /\ \A a, b \in 1..Len(tar) :
              a < b <=> PositionOf(tar[a].hdr.Name) < PositionOf(tar[b].hdr.Name)
        /\ werr = "nil" =>
              {tar[k].hdr.Name : k \in 1..Len(tar)}
                  = {PathAt(q) : q \in {r \in Positions : Survives(r)}}

C6_Witness ==
    /\ mode = "TarZim" /\ werr = "nil"
    /\ Len(tar) >= 2
    /\ \E q \in Positions : ~Survives(q) /\ q < PositionOf(tar[Len(tar)].hdr.Name)

\* C7: the handoff is a one-slot queue with backpressure: the producer has
\* completed at most one send more than the consumer has taken, at most one
\* value waits, the producer cannot move while its value has not been taken,
\* and the consumer cannot move while it waits and nothing is ready.
C7_Backpressure ==
    /\ Len(emitted) <= Len(recvLog) + 1
    /\ Len(ch) <= 1
    /\ (ppc = "send" /\ ch # <<>>) => ~ENABLED Producer
    /\ (wpc = "recv" /\ ch = <<>> /\ ~closed) => ~ENABLED Consumer

C7_Witness ==
    /\ ppc = "send" /\ ch # <<>>
    /\ wpc = "data"
    /\ Len(recvLog) >= 2

\* C8: under fair scheduling the producer always eventually closes the
\* stream or ends in a fatal abort, also when the consumer stops consuming.
C8_ProducerLeavesRunning == <>(ppc \in {"done", "fatal"})

\* All of the archive was visited, the stream is closed, the consumer
\* returned nil and received exactly what was emitted.
RunComplete ==
    /\ ppc = "done" /\ closed /\ i = Len(Z) + 1
    /\ werr = "nil"
    /\ recvLog = emitted
    /\ \A a, b \in 1..Len(recvLog) : recvLog[a].path = recvLog[b].path => a = b

\* C9: when no render failure and no consumer I/O failure occurs, under fair
\* scheduling the producer eventually closes the stream after visiting every
\* entry, the consumer eventually returns nil, and every emitted Entry has
\* been consumed exactly once.
C9_CompletesWhenNoFailure == <>(exited \/ werr = "error" \/ RunComplete)

C9_Witness ==
    /\ RunComplete
    /\ Len(emitted) >= 2
    /\ Len(emitted) < Len(Z)

\* C10: a payload fetch failure or redirect resolution failure is not fatal:
\* the step that visits the failing entry moves to the next entry and leaves
\* the stream, the index and the run state alone; and a run that reaches the
\* end of the archive has emitted and indexed exactly the entries it would
\* have with the failing entries left out.
C10_FailureIsSkipped ==
    [][/\ (InCallback /\ FetchOrResolveFails(i)) =>
              /\ ppc' = "iter" /\ ~exited'
              /\ i' \in {i, i + 1}
              /\ emitted' = emitted /\ ch' = ch /\ entries' = entries
       /\ eof' =>
              /\ PathsOf(emitted') =
                     {PathAt(q) : q \in {r \in Positions : Survives(r)}}
              /\ DOMAIN entries' = PathsOf(emitted')
      ]_vars

C10_Witness ==
    \E q \in Positions :
        /\ FetchOrResolveFails(q)
        /\ \E r \in Positions :
              /\ q < r /\ Visited(r)
              /\ PathAt(r) \in PathsOf(emitted)
              /\ PathAt(r) \in DOMAIN entries

-----------------------------------------------------------------------------
\* C11: every entry skipped for a payload fetch failure or a redirect
\* resolution failure produces a notification (a progress-bar increment or a
\* log line) before the producer moves on to the next entry.
C11_SkipIsNotified ==
    [][(InCallback /\ FetchOrResolveFails(i) /\ i' = i + 1)
          => (progress' > progress \/ logged' > logged)]_vars

\* Entry k of the stream is in the output, whole.
InOutput(k) ==
    IF mode = "TarZim"
        THEN /\ k <= Len(tar)
             /\ tar[k].hdr.Name = recvLog[k].path
             /\ tar[k].hdr.Size = Len(recvLog[k].data)
             /\ tar[k].data = recvLog[k].data
        ELSE /\ (<<"out">> \o recvLog[k].path) \in DOMAIN dir
             /\ dir[<<"out">> \o recvLog[k].path] = recvLog[k].data

\* C12: a consumer that hits a write failure returns the error at once, takes
\* nothing more from the stream, leaves what it wrote for the earlier entries
\* in place, and in archive mode does not write the trailer.
C12_ErrorStopsConsumer ==
    [][werr' = "error" =>
          /\ wpc' = "done"
          /\ ~tarClosed'
          /\ \A k \in 1..(Len(recvLog') - 1) : InOutput(k)'
          /\ werr = "error" =>
                /\ recvLog' = recvLog /\ file' = file
                /\ tar' = tar /\ dir' = dir
      ]_vars

C12_Witness ==
    /\ werr = "error"
    /\ Len(recvLog) = 2 /\ ~eof
    /\ ch # <<>>
    /\ (mode = "TarZim" => Len(tar) = 2)
    /\ (mode = "UnZim" => Cardinality(DOMAIN dir) = 2)

\* C13: a render failure of a redirect stub aborts the run: the process has
\* ended, the stream is not closed, and neither the failing redirect nor any
\* later entry is emitted or indexed.
C13_RenderFailureAborts ==
    ppc = "fatal" =>
        /\ exited /\ ~closed
        /\ ~ENABLED Next
        /\ ch = <<>>
        /\ \A q \in Positions :
              q >= i => /\ PathAt(q) \notin PathsOf(emitted)
                        /\ PathAt(q) \notin PathsOf(recvLog)
                        /\ PathAt(q) \notin DOMAIN entries

C13_Witness ==
    /\ ppc = "fatal"
    /\ i < Len(Z)
    /\ Survives(i + 1)
    /\ emitted # <<>>

\* The payload of the Entry of a surviving entry q.
ExpectedPayload(q) ==
    IF IsRedirect(q)
        THEN <<"index-redirect.html",
               Z[Z[q].redirectIndex].url[Len(Z[Z[q].redirectIndex].url)]>>
        ELSE Z[q].data

RECURSIVE ExpectedArticles(_)
\* The Entries of the surviving entries among the first q, in archive order.
ExpectedArticles(q) ==
    IF q = 0 THEN <<>>
    ELSE IF Survives(q)
            THEN Append(ExpectedArticles(q - 1),
                        [path |-> PathAt(q), data |-> ExpectedPayload(q)])
            ELSE ExpectedArticles(q - 1)

\* C17: the output of a run that completes is a function of the archive and
\* the mode alone, whatever the interleaving: the same members in the same
\* order in archive mode, the same tree in directory mode, the same index.
C17_OutputDetermined ==
    werr = "nil" =>
        LET exp == ExpectedArticles(Len(Z))
            surv == {q \in Positions : Survives(q)}
        IN  /\ mode = "TarZim" =>
                  /\ tarClosed
                  /\ tar = [k \in 1..Len(exp) |->
                              [hdr |-> [Name |-> exp[k].path, Mode |-> 384,
                                        Size |-> Len(exp[k].data)],
                               data |-> exp[k].data]]
            /\ mode = "UnZim" =>
                  /\ DOMAIN dir = {<<"out">> \o exp[k].path : k \in 1..Len(exp)}
                  /\ \A k \in 1..Len(exp) :
                        dir[<<"out">> \o exp[k].path] = exp[k].data
            /\ DOMAIN entries = {PathAt(q) : q \in surv}
            /\ \A q \in surv :
                  entries[PathAt(q)] =
                      [Title |-> Z[q].Title, MimeType |-> Z[q].mimeType]

C17_Witness ==
    /\ werr = "nil" /\ mode = "TarZim"
    /\ Len(tar) = 3
    /\ \E q \in Positions : IsRedirect(q)

\* C18: no deleted entry and no entry outside the five namespaces is ever
\* emitted or indexed; the step that visits one leaves the stream and the
\* index unchanged.
C18_ExcludedNeverEmitted ==
    [][/\ (/\ InCallback /\ ~Z[i].lookupErr
           /\ (IsDeleted(i) \/ ~InRecognizedNamespace(i)))
          => /\ ch' = ch /\ emitted' = emitted /\ entries' = entries
             /\ ppc' = "iter" /\ i' \in {i, i + 1}
       /\ \A q \in Positions :
             (~Z[q].lookupErr /\ (IsDeleted(q) \/ ~InRecognizedNamespace(q)))
             => /\ PathAt(q) \notin PathsOf(emitted')
                /\ PathAt(q) \notin PathsOf(ch')
                /\ PathAt(q) \notin DOMAIN entries'
      ]_vars

C18_Witness ==
    /\ \E q \in Positions : Visited(q) /\ IsDeleted(q)
    /\ \E q \in Positions : Visited(q) /\ ~InRecognizedNamespace(q)
                               /\ ~IsDeleted(q) /\ ~Z[q].lookupErr
    /\ Len(emitted) = 1 /\ Cardinality(DOMAIN entries) = 1
    /\ i > Len(Z)

\* C19: every key of the index is the path of an Entry the consumer has
\* already received, and the received paths exceed the keys by at most the
\* path received last.
C19_IndexTrailsDelivery ==
    /\ DOMAIN entries \subseteq PathsOf(recvLog)
    /\ (PathsOf(recvLog) \ DOMAIN entries)
          \subseteq (IF recvLog = <<>> THEN {}
                     ELSE {recvLog[Len(recvLog)].path})

C19_Witness ==
    /\ Len(recvLog) = 2
    /\ Cardinality(DOMAIN entries) = 1
    /\ recvLog[2].path \notin DOMAIN entries
    /\ ppc = "add"

-----------------------------------------------------------------------------
\* The mapping the caller holds.
CallerView == MapOf(held)

\* C14: the value Entries() returned does not alias the index: an insert by
\* the producer does not change the mapping the caller holds, and a write of
\* the caller to that mapping does not change the index.
C14_SnapshotDoesNotAlias ==
    [][held # "nil" =>
          /\ (ppc = "locked" /\ ppc' = "stored") => CallerView' = CallerView
          /\ (callerWrites' # callerWrites) => entries' = entries
      ]_vars

\* C15: no read of the index by a caller overlaps an insert, and the lock is
\* held only within one insert, never across a stream send.
C15_AccessSerialized ==
    /\ ~(cpc = "reading" /\ ppc \in {"locked", "stored"})
    /\ mu <=> ppc \in {"locked", "stored"}

\* C16: MakeRedirectIndexPage fails with the no-main-page error iff the
\* archive declares no main page; then nothing is appended; with a main page
\* the appended index.html redirects to the main page's full URL.
C16_TopLevelRedirect ==
    pageErr # "none" =>
        /\ pageErr = "no index found in the ZIM" <=> mainPage = 0
        /\ pageErr = "no index found in the ZIM" => Len(tar) = Len(recvLog)
        /\ pageErr = "nil" =>
              /\ mainPage # 0
              /\ Len(tar) = Len(recvLog) + 1
              /\ tar[Len(tar)].hdr.Name = <<"index.html">>
              /\ tar[Len(tar)].data = <<"index-redirect.html", PathAt(mainPage)>>

C16_Witness ==
    /\ pageErr = "nil"
    /\ mainPage = 2
    /\ Len(tar) = 3

\* C20: Article.Data() terminates and returns the payload of the Entry: a
\* call that has ended has returned.
C20_DataReturns == dataPc \notin {"idle", "running"} => dataPc = "returned"

====
